---- MODULE Spec2Model ----
(***************************************************************************)
(* givemeratio: the ratio manager (src/givemeratio/givemeratio.py), its    *)
(* settings (src/givemeratio/settings.py) and the commands of src/cli.py.  *)
(*                                                                         *)
(* Units.  Sizes are bytes, times are hours.  The values of the tracker    *)
(* profiles and of the global budget are configuration (trackers.yaml and  *)
(* the environment); the model fixes one small configuration.  Instants    *)
(* are integers (hours since an arbitrary origin, UTC).                    *)
(***************************************************************************)
EXTENDS Integers, Sequences, FiniteSets, TLC

(***************************************************************************)
(* Bounds of the model                                                     *)
(***************************************************************************)
\* the clock stops after MaxNow hours
MaxNow == 2
\* a feed carries at most MaxFeed items
MaxFeed == 2
\* release sizes drawn for the validation specification: 0..MaxSize
MaxSize == 5
\* torrent ids drawn for the file name specification: 0..MaxId
MaxId == 12

(***************************************************************************)
(* Settings and the tracker registry                                       *)
(***************************************************************************)
settings ==
  [ MAX_STORAGE_SIZE_BYTES |-> 8,
    DAEMON_SLEEP_INTERVAL_SECONDS |-> 300,
    QBITTORRENT_CATEGORY   |-> "givemeratio" ]

\* Tracker.from_file: one profile per tracker of trackers.yaml
AVAILABLE_TRACKERS ==
  [ ggn |-> [ name |-> "ggn", min_seeding_time |-> 2,
              max_torrent_size_bytes |-> 4, min_torrent_size_bytes |-> 2,
              max_storage_size_bytes |-> 6, min_published_recency |-> 1 ],
    b   |-> [ name |-> "b", min_seeding_time |-> 1,
              max_torrent_size_bytes |-> 4, min_torrent_size_bytes |-> 2,
              max_storage_size_bytes |-> 10, min_published_recency |-> 2 ] ]

TrackerNames == DOMAIN AVAILABLE_TRACKERS

\* the numeric torrent identifiers the indexer hands out
Ids == {1, 2}

(***************************************************************************)
(* Sequences                                                               *)
(***************************************************************************)
Reverse(s) == [i \in 1..Len(s) |-> s[Len(s) + 1 - i]]

Range(s) == {s[i] : i \in 1..Len(s)}

\* the sequences over S of length at most n
SeqsUpTo(S, n) == UNION {[1..k -> S] : k \in 0..n}

\* the orders in which the elements of the finite set S can be listed
Orders(S) ==
  {s \in [1..Cardinality(S) -> S] : \A i, j \in 1..Cardinality(S) : i # j => s[i] # s[j]}

(***************************************************************************)
(* Local torrent files: naming and contents                                *)
(***************************************************************************)
\* generate_filepath: the file "[<tracker.name>]<torrent_id>.torrent" of the
\* torrent directory, as the pair the name is built from
generate_filepath(tracker, torrent_id) == [tracker |-> tracker, id |-> torrent_id]

Paths == {generate_filepath(t, i) : t \in TrackerNames, i \in Ids}

\* The torrent served for a release.  Two trackers may carry the same torrent
\* (same info section, hence same infohash): release 1 is cross-posted.
Hashes == {"h1", "h2", "h3"}

DownloadedInfohash(tracker, torrent_id) ==
  IF torrent_id = 1 THEN "h1"
  ELSE IF tracker = "ggn" THEN "h2" ELSE "h3"

\* torrent.size of the torf.Torrent read from the bytes
TorrentSize(infohash) == IF infohash = "h3" THEN 4 ELSE 3

\* LocalTorrentFile.from_bytes: the bytes of a torrent are modelled by the
\* infohash of their info section
from_bytes(id, tracker, contents) ==
  [id |-> id, tracker |-> tracker, infohash |-> contents, size |-> TorrentSize(contents)]

\* the bytes a file of the torrent directory holds: to_file wrote what was
\* downloaded for the release the file is named after
FileContents(path) == DownloadedInfohash(path.tracker, path.id)

\* LocalTorrentFile.from_filepath: tracker and id from the name, the rest from
\* the bytes found in the file
from_filepath(path) == from_bytes(path.id, path.tracker, FileContents(path))

\* LocalTorrentFile.filepath
LocalFilepath(torrent) == generate_filepath(torrent.tracker, torrent.id)

(***************************************************************************)
(* File names, character by character, and the round trip through a file   *)
(* (to_file, then from_filepath)                                            *)
(***************************************************************************)
DigitChars == <<"0", "1", "2", "3", "4", "5", "6", "7", "8", "9">>

\* Tracker.name, as its characters
NameChars(t) == IF t = "ggn" THEN <<"g", "g", "n">> ELSE <<"b">>

\* f"{torrent_id}": the decimal digits of a natural number
RECURSIVE Str(_)
Str(n) == IF n < 10 THEN <<DigitChars[n + 1]>> ELSE Str(n \div 10) \o <<DigitChars[(n % 10) + 1]>>

\* an int() that keeps the last digit only
ToIntLastDigit(ds) == (CHOOSE d \in 1..10 : DigitChars[d] = ds[Len(ds)]) - 1

\* int(torrent_id) of a string of digits
RECURSIVE ToInt(_)
ToInt(ds) ==
  IF ds = <<>> THEN 0
  ELSE 10 * ToInt(SubSeq(ds, 1, Len(ds) - 1))
         + (CHOOSE d \in 1..10 : DigitChars[d] = ds[Len(ds)]) - 1

\* generate_filepath, line 31: f"[{tracker.name}]{torrent_id}.torrent"
filename(t, torrent_id) ==
  <<"[">> \o NameChars(t) \o <<"]">> \o Str(torrent_id)
    \o <<".", "t", "o", "r", "r", "e", "n", "t">>

\* re.match(r"\[(.*)\]([0-9]+).torrent", name): the ways the pattern matches
\* a prefix of the name, as the position k of "]" and the position m of the
\* last digit; the "." of the pattern is any character
Matches(name) ==
  {km \in (1..Len(name)) \X (1..Len(name)) :
     /\ name[1] = "["
     /\ km[1] >= 2 /\ name[km[1]] = "]"
     /\ km[2] > km[1]
     /\ \A j \in (km[1] + 1)..km[2] : \E d \in 1..10 : DigitChars[d] = name[j]
     /\ km[2] + 8 <= Len(name)
     /\ SubSeq(name, km[2] + 2, km[2] + 8) = <<"t", "o", "r", "r", "e", "n", "t">>}

\* the groups of the match: both quantifiers are greedy, the first group is
\* the longest that lets the rest match, then the second
groups(name) ==
  LET k == CHOOSE k \in {km[1] : km \in Matches(name)} :
             \A km \in Matches(name) : km[1] <= k
      m == CHOOSE m \in {km[2] : km \in Matches(name)} :
             /\ <<k, m>> \in Matches(name)
             /\ \A km \in Matches(name) : km[1] = k => km[2] <= m
  IN  [tracker |-> SubSeq(name, 2, k - 1), torrent_id |-> SubSeq(name, k + 1, m)]

\* LocalTorrentFile.from_filepath on a file of the directory, given by its
\* name and the bytes it holds: ValueError when the name is not recognised,
\* KeyError when the registry has no tracker of the name
from_file(file) ==
  IF Matches(file.name) = {} THEN [raises |-> "ValueError"]
  ELSE IF \A t \in TrackerNames : NameChars(t) # groups(file.name).tracker
       THEN [raises |-> "KeyError"]
       ELSE from_bytes(ToInt(groups(file.name).torrent_id),
                       CHOOSE t \in TrackerNames : NameChars(t) = groups(file.name).tracker,
                       file.contents)

(***************************************************************************)
(* Release records                                                         *)
(***************************************************************************)
NoId == 0

\* the instant (UTC) at which daylight saving time ends in America/Los_Angeles
DSTEnd == 9

\* utcoffset of America/Los_Angeles at a UTC instant: PDT before the end of
\* daylight saving time, PST from it on
LosAngelesOffset(utc) == IF utc < DSTEnd THEN -7 ELSE -8

\* an aware datetime: the wall clock fields and the utcoffset of its tzinfo
Instant(dt) == dt.wall - dt.off

\* RSSItem.parse_datetime: astimezone(America/Los_Angeles), then eight hours
\* are taken from the wall clock; the tzinfo (the offset) stays as it was
parse_datetime(pubDate) ==
  [wall |-> pubDate + LosAngelesOffset(pubDate) - 8, off |-> LosAngelesOffset(pubDate)]

\* datetime.now(pytz.timezone("America/Los_Angeles"))
Now(utc) == [wall |-> utc + LosAngelesOffset(utc), off |-> LosAngelesOffset(utc)]

\* an item of the feed document: the torrent id of its guid (NoId when the
\* guid carries none), size, pubDate (a UTC instant), downloadvolumefactor
FeedItem(guid, size, pubDate, dvf) ==
  [guid |-> guid, size |-> size, pubDate |-> pubDate, downloadvolumefactor |-> dvf]

\* the RSSItem that ProwlarrAPI.parse builds of one feed item
RSSItem(raw, tracker) ==
  [id |-> raw.guid, size |-> raw.size, publish_date |-> parse_datetime(raw.pubDate),
   downloadvolumefactor |-> raw.downloadvolumefactor, tracker |-> tracker]

ParseError == "ValueError"

\* ProwlarrAPI.parse: raises at the first item whose guid holds no torrent id
parse(feed, tracker) ==
  IF \E i \in 1..Len(feed) : feed[i].guid = NoId THEN ParseError
  ELSE [i \in 1..Len(feed) |-> RSSItem(feed[i], tracker)]

\* RSSItem.freeleech
freeleech(item) == item.downloadvolumefactor = 0

\* RSSItem.filepath
filepath(item) == generate_filepath(item.tracker, item.id)

\* an equality of releases on all their fields
RSSItemEqAllFields(a, b) == a = b

\* RSSItem.__eq__ / __hash__
RSSItemEq(a, b) == a.id = b.id

(***************************************************************************)
(* RatioManager.get_rss                                                    *)
(***************************************************************************)
\* the sort key of get_rss: strftime("%Y-%m-%d %H:%M:%S") prints the wall
\* clock and drops the offset; such strings order as the wall clocks do
key(item) == item.publish_date.wall

\* a filter that lets every item through, whatever the flag
FilterNothing(s, freeleech_only) == s

RECURSIVE Filter(_, _)
Filter(s, freeleech_only) ==
  IF s = <<>> THEN <<>>
  ELSE IF freeleech_only => freeleech(Head(s))
       THEN <<Head(s)>> \o Filter(Tail(s), freeleech_only)
       ELSE Filter(Tail(s), freeleech_only)

\* x inserted into the sorted sequence s behind every element whose key is
\* not greater (sorted() is stable)
RECURSIVE Insert(_, _)
Insert(s, x) ==
  IF s = <<>> THEN <<x>>
  ELSE IF key(Head(s)) <= key(x) THEN <<Head(s)>> \o Insert(Tail(s), x)
       ELSE <<x>> \o s

RECURSIVE sorted(_)
sorted(s) ==
  IF s = <<>> THEN <<>>
  ELSE Insert(sorted(SubSeq(s, 1, Len(s) - 1)), s[Len(s)])

\* get_rss on the items retrieve_rss returned
get_rss(rss, freeleech_only) == Reverse(sorted(Filter(rss, freeleech_only)))

(***************************************************************************)
(* The torrent client (qBittorrent): a set of torrents, each with its      *)
(* infohash, size, seeding time and category                               *)
(***************************************************************************)
Torrent(infohash, size, seeding_time, category) ==
  [infohash |-> infohash, size |-> size, seeding_time |-> seeding_time, category |-> category]

\* qbt.torrents_info(category=...)
torrents_info(client, category) == {t \in client : t.category = category}

\* qbt.torrents_info(torrent_hashes="h|h|..."): the torrents with one of the
\* hashes; an empty hash list is no filter
torrents_info_hashes(client, hashes) ==
  IF hashes = {} THEN client ELSE {t \in client : t.infohash \in hashes}

\* qbt.torrents_add(torrent_files=..., category=...): a torrent the client
\* already holds is not added a second time
torrents_add(client, contents, category) ==
  IF \E t \in client : t.infohash = contents THEN client
  ELSE client \cup {Torrent(contents, TorrentSize(contents), 0, category)}

\* qbt.torrents_delete(torrent_hashes=..., delete_files=True)
torrents_delete(client, infohash) == {t \in client : t.infohash # infohash}

RECURSIVE SumSizes(_)
SumSizes(ts) ==
  IF ts = {} THEN 0
  ELSE LET t == CHOOSE x \in ts : TRUE IN t.size + SumSizes(ts \ {t})

\* RatioManager.check_seeding_size
check_seeding_size(client) ==
  SumSizes(torrents_info(client, settings.QBITTORRENT_CATEGORY))

\* a check_exists for which the not-found answer of the client is no False
check_existsAlways(client, infohash) == TRUE

\* RatioManager.check_exists: NotFound404Error of torrents_properties is False
check_exists(client, infohash) == \E t \in client : t.infohash = infohash

(***************************************************************************)
(* RatioManager.validate                                                   *)
(***************************************************************************)
FILE_EXISTS_ALREADY == "FILE_EXISTS_ALREADY"
FILE_SEEDING_ALREADY == "FILE_SEEDING_ALREADY"
TORRENT_TOO_LARGE == "TORRENT_TOO_LARGE"
TORRENT_TOO_SMALL == "TORRENT_TOO_SMALL"
TRACKER_BUDGET_EXCEEDED == "TRACKER_BUDGET_EXCEEDED"
GLOBAL_BUDGET_EXCEEDED == "GLOBAL_BUDGET_EXCEEDED"
NOT_RECENT_ENOUGH == "NOT_RECENT_ENOUGH"

\* errors.append(reason) under a condition
AppendIf(errors, cond, reason) == IF cond THEN Append(errors, reason) ELSE errors

\* lines 240-246
CheckFile(errors, item, dir, client) ==
  IF filepath(item) \in dir
  THEN AppendIf(Append(errors, FILE_EXISTS_ALREADY),
                check_exists(client, FileContents(filepath(item))),
                FILE_SEEDING_ALREADY)
  ELSE errors

\* the size checks with the bounds themselves refused
CheckSizeExclusive(errors, item, profile) ==
  AppendIf(AppendIf(errors, item.size >= profile.max_torrent_size_bytes, TORRENT_TOO_LARGE),
           item.size <= profile.min_torrent_size_bytes, TORRENT_TOO_SMALL)

\* lines 248-252
CheckSize(errors, item, profile) ==
  AppendIf(AppendIf(errors, item.size > profile.max_torrent_size_bytes, TORRENT_TOO_LARGE),
           item.size < profile.min_torrent_size_bytes, TORRENT_TOO_SMALL)

\* a validate without the check against the tracker's budget
CheckTrackerBudgetNever(errors, item, profile, client) == errors

\* lines 254-256
CheckTrackerBudget(errors, item, profile, client) ==
  AppendIf(errors,
           check_seeding_size(client) + item.size > profile.max_storage_size_bytes,
           TRACKER_BUDGET_EXCEEDED)

\* the global budget check with a release that fills the budget refused
CheckGlobalBudgetInclusive(errors, item, client) ==
  AppendIf(errors,
           check_seeding_size(client) + item.size >= settings.MAX_STORAGE_SIZE_BYTES,
           GLOBAL_BUDGET_EXCEEDED)

\* lines 258-260
CheckGlobalBudget(errors, item, client) ==
  AppendIf(errors,
           check_seeding_size(client) + item.size > settings.MAX_STORAGE_SIZE_BYTES,
           GLOBAL_BUDGET_EXCEEDED)

\* the recency check on the wall clocks, the offsets of the datetimes ignored
CheckRecencyNaive(errors, item, profile, utc) ==
  AppendIf(errors,
           Now(utc).wall - item.publish_date.wall > profile.min_published_recency,
           NOT_RECENT_ENOUGH)

\* lines 262-264: the difference of two aware datetimes is that of their instants
CheckRecency(errors, item, profile, utc) ==
  AppendIf(errors,
           Instant(Now(utc)) - Instant(item.publish_date) > profile.min_published_recency,
           NOT_RECENT_ENOUGH)

\* a validate that returns at the first reason it finds
validateFirstOnly(self_tracker, item, dir, client, utc) ==
  LET profile == AVAILABLE_TRACKERS[self_tracker]
      all == CheckRecency(CheckGlobalBudget(CheckTrackerBudget(CheckSize(
               CheckFile(<<>>, item, dir, client), item, profile), item, profile, client),
               item, client), item, profile, utc)
  IN  IF all = <<>> THEN all ELSE <<Head(all)>>

\* validate of the manager built for tracker self_tracker, with the torrent
\* directory dir, the torrent client and the clock as they are at the call
validate(self_tracker, item, dir, client, utc) ==
  LET profile == AVAILABLE_TRACKERS[self_tracker]
      e1 == CheckFile(<<>>, item, dir, client)
      e2 == CheckSize(e1, item, profile)
      e3 == CheckTrackerBudget(e2, item, profile, client)
      e4 == CheckGlobalBudget(e3, item, client)
  IN  CheckRecency(e4, item, profile, utc)

\* validate when the client changes while it runs: check_seeding_size is
\* called twice (lines 254 and 258), each call asks the client anew; the first
\* answer is taken from client, the second from later
validate_reads(self_tracker, item, dir, client, later, utc) ==
  LET profile == AVAILABLE_TRACKERS[self_tracker]
      e1 == CheckFile(<<>>, item, dir, client)
      e2 == CheckSize(e1, item, profile)
      e3 == CheckTrackerBudget(e2, item, profile, client)
      e4 == CheckGlobalBudget(e3, item, later)
  IN  CheckRecency(e4, item, profile, utc)

\* results[item] = errors of a dict keyed by RSSItem (equal when the ids are):
\* an equal key keeps its place and its first key object, the value is replaced
DictPut(d, k, v) ==
  IF \E i \in 1..Len(d) : RSSItemEq(d[i].key, k)
  THEN [i \in 1..Len(d) |-> IF RSSItemEq(d[i].key, k) THEN [key |-> d[i].key, val |-> v]
                                                     ELSE d[i]]
  ELSE Append(d, [key |-> k, val |-> v])

\* RatioManager.validate_items
RECURSIVE validate_items(_, _, _, _, _)
validate_items(self_tracker, its, dir, client, utc) ==
  IF its = <<>> THEN <<>>
  ELSE DictPut(validate_items(self_tracker, SubSeq(its, 1, Len(its) - 1), dir, client, utc),
               its[Len(its)],
               validate(self_tracker, its[Len(its)], dir, client, utc))

(***************************************************************************)
(* RatioManager.check_seed_times                                           *)
(***************************************************************************)
\* results[torrent] = seeding_time of a dict keyed by LocalTorrentFile (equal
\* when the infohashes are)
SeedPut(d, k, v) ==
  IF \E i \in 1..Len(d) : d[i].key.infohash = k.infohash
  THEN [i \in 1..Len(d) |-> IF d[i].key.infohash = k.infohash
                            THEN [key |-> d[i].key, val |-> v] ELSE d[i]]
  ELSE Append(d, [key |-> k, val |-> v])

\* qbittorrent_info[torrent.infohash].seeding_time
SeedingTime(client, infohash) ==
  (CHOOSE t \in client : t.infohash = infohash).seeding_time

\* lines 310-315: the lookup raises KeyError for a local torrent whose infohash
\* the client did not report
SeedTimesRaises(listing, client) ==
  LET hashes == {FileContents(listing[i]) : i \in 1..Len(listing)}
      info   == {t.infohash : t \in torrents_info_hashes(client, hashes)}
  IN  \E i \in 1..Len(listing) : FileContents(listing[i]) \notin info

\* the infohash whose lookup raises: that of the first such torrent of the listing
FirstMissing(listing, client) ==
  LET hashes == {FileContents(listing[i]) : i \in 1..Len(listing)}
      info   == {t.infohash : t \in torrents_info_hashes(client, hashes)}
      first  == CHOOSE i \in 1..Len(listing) :
                  /\ FileContents(listing[i]) \notin info
                  /\ \A j \in 1..(i - 1) : FileContents(listing[j]) \in info
  IN  FileContents(listing[first])

\* check_seed_times over the directory listing (os.listdir, in its order)
RECURSIVE check_seed_times(_, _)
check_seed_times(listing, client) ==
  IF listing = <<>> THEN <<>>
  ELSE LET torrent == from_filepath(listing[Len(listing)])
       IN  SeedPut(check_seed_times(SubSeq(listing, 1, Len(listing) - 1), client),
                   torrent, SeedingTime(client, torrent.infohash))

(***************************************************************************)
(* State                                                                   *)
(***************************************************************************)
VARIABLES
  tracker,    \* the tracker the manager was built for (RatioManager.tracker)
  cmd,        \* the command of cli.py the process runs
  pc,         \* where the command stands
  now,        \* the clock (UTC instant)
  files,      \* the paths present in the torrent directory
  qbt,        \* the torrents of the torrent client
  feed,       \* get_rss: the feed document retrieved
  items,      \* the releases still to be handled (run), or returned (get_rss)
  errors,     \* the result of the last validate
  validated,  \* add: the dict validate_items returned, entries still to handle
  listed,     \* check_seed_times: the local torrents, in the order of the listing
  torrents,   \* clean_up: the dict check_seed_times returned
  results,    \* clean_up: its result dict so far
  verdicts,   \* history: the validate calls of the batch, each with its result
  deletes,    \* history: per infohash, the delete calls of clean_up since it was last added
  calls       \* history: the calls and exceptions of the last step of the process

vars == <<tracker, cmd, pc, now, files, qbt, feed, items, errors, validated,
          listed, torrents, results, verdicts, deletes, calls>>

Event(op, arg) == [op |-> op, arg |-> arg]
Verdict(item, errs) == [item |-> item, errors |-> errs]
Raise(exc) == Event("raise", exc)

\* the publish instants the indexer reports in the polling specification
PubDates == {8}

\* the releases the indexer reports for a tracker in the polling specification
FeedIds(t) == IF t = "ggn" THEN Ids ELSE {1}

\* the feed items the indexer can report for a tracker: the size is that of
\* the torrent the release stands for
RawItems(t) ==
  {FeedItem(g, IF g = NoId THEN TorrentSize("h1") ELSE TorrentSize(DownloadedInfohash(t, g)), d, f) :
     g \in FeedIds(t) \cup {NoId}, d \in PubDates, f \in {0, 1}}

\* within one feed a torrent id stands for one release
IdConsistent(f) ==
  \A i, j \in 1..Len(f) : (f[i].guid = f[j].guid /\ f[i].guid # NoId) => f[i] = f[j]

Feeds(t) == {f \in SeqsUpTo(RawItems(t), MaxFeed) : IdConsistent(f)}

\* the seeding times the client reports grow with the clock
Seeded(client, d) ==
  {Torrent(t.infohash, t.size, t.seeding_time + d, t.category) : t \in client}

Init ==
  /\ tracker \in TrackerNames
  /\ cmd = "none"
  /\ pc = "idle"
  /\ now = 0
  /\ files = {}
  /\ qbt = {}
  /\ feed = <<>>
  /\ items = <<>>
  /\ errors = <<>>
  /\ validated = <<>>
  /\ listed = <<>>
  /\ torrents = <<>>
  /\ results = <<>>
  /\ verdicts = <<>>
  /\ deletes = [h \in Hashes |-> 0]
  /\ calls = <<>>

(***************************************************************************)
(* The process: cli.py builds the manager and runs one command             *)
(***************************************************************************)
FirstStep(c) == IF c = "clean" THEN "check_seed_times" ELSE "get_rss"

\* the locals of a command that has ended
NoLocals ==
  /\ items' = <<>>
  /\ errors' = <<>>
  /\ validated' = <<>>
  /\ listed' = <<>>
  /\ torrents' = <<>>
  /\ results' = <<>>

\* time passes: the clock and the seeding times advance
Elapse ==
  \E d \in 0..1 :
    /\ now + d <= MaxNow
    /\ now' = now + d
    /\ qbt' = Seeded(qbt, d)

\* a process is started (some time after the last one ended): the manager is
\* built for a tracker of the registry and the command begins
Start(c, t) ==
  /\ pc \in {"idle", "crashed"}
  /\ Elapse
  /\ tracker' = t
  /\ cmd' = c
  /\ pc' = FirstStep(c)
  /\ NoLocals
  /\ verdicts' = <<>>
  /\ calls' = <<>>
  /\ UNCHANGED <<files, feed, deletes>>

\* an exception nothing catches ends the process
Crash(exc, before) ==
  /\ pc' = "crashed"
  /\ calls' = Append(before, Raise(exc))
  /\ NoLocals

\* a gate that lets every release through
AcceptedAlways(errs) == TRUE

\* cli.py lines 66 and 147: if not errors
Accepted(errs) == errs = <<>>

\* an add that writes the file before it submits the torrent to the client
AddEffectFileFirst(item) ==
  LET torrent == from_bytes(item.id, item.tracker, DownloadedInfohash(item.tracker, item.id))
  IN  /\ qbt' = torrents_add(qbt, torrent.infohash, settings.QBITTORRENT_CATEGORY)
      /\ files' = files \cup {LocalFilepath(torrent)}
      /\ deletes' = [deletes EXCEPT ![torrent.infohash] = 0]
      /\ calls' = <<Event("add", item),
                    Event("to_file", LocalFilepath(torrent)),
                    Event("torrents_add", torrent.infohash)>>

\* RatioManager.add: download, torrents_add, to_file
AddEffect(item) ==
  LET torrent == from_bytes(item.id, item.tracker, DownloadedInfohash(item.tracker, item.id))
  IN  /\ qbt' = torrents_add(qbt, torrent.infohash, settings.QBITTORRENT_CATEGORY)
      /\ files' = files \cup {LocalFilepath(torrent)}
      /\ deletes' = [deletes EXCEPT ![torrent.infohash] = 0]
      /\ calls' = <<Event("add", item),
                    Event("torrents_add", torrent.infohash),
                    Event("to_file", LocalFilepath(torrent))>>

\* the exceptions of httpx other than ReadTimeout that a request can end with
OtherNetworkErrors == {"ConnectError", "ConnectTimeout"}

(***************************************************************************)
(* run: the polling loop (cli.py lines 136-157)                            *)
(***************************************************************************)
\* lines 139-143: get_rss; ReadTimeout is caught (sleep, continue), any other
\* exception ends the process
RunFetch ==
  /\ cmd = "run" /\ pc = "get_rss"
  /\ \/ /\ pc' = "sleep"
        /\ calls' = <<Raise("ReadTimeout")>>
        /\ UNCHANGED <<items, errors, validated, listed, torrents, results>>
     \/ \E exc \in OtherNetworkErrors : Crash(exc, <<>>)
     \/ \E f \in Feeds(tracker) :
          IF \E i \in 1..Len(f) : f[i].guid = NoId
          THEN Crash(ParseError, <<>>)
          ELSE /\ items' = get_rss(parse(f, tracker), TRUE)
               /\ pc' = IF items' = <<>> THEN "check_seed_times" ELSE "validate"
               /\ calls' = <<Event("get_rss", items')>>
               /\ UNCHANGED <<errors, validated, listed, torrents, results>>
  /\ UNCHANGED <<tracker, cmd, now, files, qbt, feed, verdicts, deletes>>

\* the next item of the batch, and no clean_up after the last one
NextItemNoCleanup ==
  /\ items' = Tail(items)
  /\ pc' = IF Tail(items) = <<>> THEN "sleep" ELSE "validate"

\* the next item of the batch, or clean_up after the last one
NextItem ==
  /\ items' = Tail(items)
  /\ pc' = IF Tail(items) = <<>> THEN "check_seed_times" ELSE "validate"

\* lines 146-147
RunValidate ==
  /\ cmd = "run" /\ pc = "validate"
  /\ errors' = validate(tracker, Head(items), files, qbt, now)
  /\ verdicts' = Append(verdicts, Verdict(Head(items), errors'))
  /\ calls' = <<Event("validate", Head(items))>>
  /\ IF Accepted(errors')
     THEN pc' = "add" /\ UNCHANGED items
     ELSE NextItem
  /\ UNCHANGED <<tracker, cmd, now, files, qbt, feed, validated, listed, torrents,
                 results, deletes>>

\* lines 149-152: add; ReadTimeout is caught, any other exception ends the process
RunAdd ==
  /\ cmd = "run" /\ pc = "add"
  /\ \/ /\ AddEffect(Head(items))
        /\ NextItem
        /\ UNCHANGED <<errors, validated, listed, torrents, results>>
     \/ /\ calls' = <<Event("add", Head(items)), Raise("ReadTimeout")>>
        /\ NextItem
        /\ UNCHANGED <<files, qbt, deletes, errors, validated, listed, torrents, results>>
     \/ \E exc \in OtherNetworkErrors :
          /\ Crash(exc, <<Event("add", Head(items))>>)
          /\ UNCHANGED <<files, qbt, deletes>>
  /\ UNCHANGED <<tracker, cmd, now, feed, verdicts>>

\* lines 156-157: time.sleep, then the next iteration
RunSleep ==
  /\ cmd = "run" /\ pc = "sleep"
  /\ Elapse
  /\ pc' = "get_rss"
  /\ calls' = <<Event("sleep", settings.DAEMON_SLEEP_INTERVAL_SECONDS)>>
  /\ NoLocals
  /\ verdicts' = <<>>
  /\ UNCHANGED <<tracker, cmd, files, feed, deletes>>

\* the user interrupts the sleeping loop
Interrupt ==
  /\ cmd = "run" /\ pc = "sleep"
  /\ pc' = "idle"
  /\ calls' = <<>>
  /\ NoLocals
  /\ verdicts' = <<>>
  /\ UNCHANGED <<tracker, cmd, now, files, qbt, feed, deletes>>

(***************************************************************************)
(* clean_up (givemeratio.py lines 300-334), of run and of the clean command *)
(***************************************************************************)
\* line 321: check_seed_times lists the directory and asks the client
CheckSeedTimes ==
  /\ pc = "check_seed_times"
  /\ \E listing \in Orders(files) :
       LET hashes == {FileContents(listing[i]) : i \in 1..Len(listing)}
           asked  == <<Event("listdir", listing),
                       Event("torrents_info", torrents_info_hashes(qbt, hashes))>>
       IN  IF SeedTimesRaises(listing, qbt)
           THEN Crash("KeyError", Append(asked, Event("lookup", FirstMissing(listing, qbt))))
           ELSE /\ listed' = [i \in 1..Len(listing) |-> from_filepath(listing[i])]
                /\ torrents' = check_seed_times(listing, qbt)
                /\ pc' = "clean_up"
                /\ calls' = asked
                /\ results' = <<>>
                /\ errors' = <<>>
                /\ UNCHANGED <<items, validated>>
  /\ verdicts' = <<>>
  /\ UNCHANGED <<tracker, cmd, now, files, qbt, feed, deletes>>

\* the removal with the file deleted before the client is asked
RemoveCallsFileFirst(torrent, dir) ==
  (IF LocalFilepath(torrent) \in dir
   THEN <<Event("remove", LocalFilepath(torrent))>> ELSE <<>>)
    \o <<Event("torrents_delete", [torrent_hashes |-> torrent.infohash, delete_files |-> TRUE])>>

\* lines 327-332: the calls that remove a torrent, in their order
RemoveCalls(torrent, dir) ==
  <<Event("torrents_delete", [torrent_hashes |-> torrent.infohash, delete_files |-> TRUE])>>
    \o (IF LocalFilepath(torrent) \in dir
        THEN <<Event("remove", LocalFilepath(torrent))>> ELSE <<>>)

\* line 324
Expired(torrent, seed_time) ==
  ~(seed_time < AVAILABLE_TRACKERS[torrent.tracker].min_seeding_time)

\* lines 323-333: one turn of the loop over the seed times
CleanEntry ==
  /\ pc = "clean_up" /\ Len(results) < Len(torrents)
  /\ LET torrent == torrents[Len(results) + 1].key
         seed_time == torrents[Len(results) + 1].val
     IN  IF ~Expired(torrent, seed_time)
         THEN /\ results' = Append(results, [key |-> torrent, val |-> FALSE])
              /\ calls' = <<>>
              /\ UNCHANGED <<qbt, files, deletes>>
         ELSE /\ qbt' = torrents_delete(qbt, torrent.infohash)
              /\ files' = files \ {LocalFilepath(torrent)}
              /\ deletes' = [deletes EXCEPT ![torrent.infohash] = @ + 1]
              /\ calls' = RemoveCalls(torrent, files)
              /\ results' = Append(results, [key |-> torrent, val |-> TRUE])
  /\ UNCHANGED <<tracker, cmd, pc, now, feed, items, errors, validated, listed,
                 torrents, verdicts>>

\* line 334: clean_up returns; run goes to sleep, the clean command ends
CleanReturn ==
  /\ pc = "clean_up" /\ Len(results) = Len(torrents)
  /\ pc' = IF cmd = "run" THEN "sleep" ELSE "idle"
  /\ calls' = <<Event("return", results)>>
  /\ NoLocals
  /\ UNCHANGED <<tracker, cmd, now, files, qbt, feed, verdicts, deletes>>

(***************************************************************************)
(* add: the add command (cli.py lines 53-83)                               *)
(***************************************************************************)
\* line 54: nothing is caught
AddFetch ==
  /\ cmd = "add" /\ pc = "get_rss"
  /\ \/ \E exc \in OtherNetworkErrors \cup {"ReadTimeout"} : Crash(exc, <<>>)
     \/ \E f \in Feeds(tracker) :
          IF \E i \in 1..Len(f) : f[i].guid = NoId
          THEN Crash(ParseError, <<>>)
          ELSE /\ items' = get_rss(parse(f, tracker), TRUE)
               /\ pc' = "validate_items"
               /\ calls' = <<Event("get_rss", items')>>
               /\ UNCHANGED <<errors, validated, listed, torrents, results>>
  /\ UNCHANGED <<tracker, cmd, now, files, qbt, feed, verdicts, deletes>>

\* line 55
AddValidateItems ==
  /\ cmd = "add" /\ pc = "validate_items"
  /\ validated' = validate_items(tracker, items, files, qbt, now)
  /\ verdicts' = [i \in 1..Len(items) |->
                    Verdict(items[i], validate(tracker, items[i], files, qbt, now))]
  /\ calls' = <<Event("validate_items", items)>>
  /\ items' = <<>>
  /\ pc' = "add"
  /\ UNCHANGED <<tracker, cmd, now, files, qbt, feed, errors, listed, torrents,
                 results, deletes>>

\* lines 65-69: one turn of the loop over the dict
AddEntry ==
  /\ cmd = "add" /\ pc = "add" /\ validated # <<>>
  /\ IF Accepted(Head(validated).val)
     THEN \/ /\ AddEffect(Head(validated).key)
             /\ validated' = Tail(validated)
             /\ UNCHANGED <<pc, items, errors, listed, torrents, results>>
          \/ \E exc \in OtherNetworkErrors \cup {"ReadTimeout"} :
               /\ Crash(exc, <<Event("add", Head(validated).key)>>)
               /\ UNCHANGED <<files, qbt, deletes>>
     ELSE /\ validated' = Tail(validated)
          /\ calls' = <<>>
          /\ UNCHANGED <<files, qbt, deletes, pc, items, errors, listed, torrents, results>>
  /\ UNCHANGED <<tracker, cmd, now, feed, verdicts>>

\* the table is printed and the command ends
AddReturn ==
  /\ cmd = "add" /\ pc = "add" /\ validated = <<>>
  /\ pc' = "idle"
  /\ calls' = <<>>
  /\ NoLocals
  /\ verdicts' = <<>>
  /\ UNCHANGED <<tracker, cmd, now, files, qbt, feed, deletes>>

(***************************************************************************)
(* The environment                                                         *)
(***************************************************************************)
\* somebody removes a torrent in the torrent client
ExternalRemove ==
  /\ \E t \in qbt : qbt' = qbt \ {t}
  /\ UNCHANGED <<tracker, cmd, pc, now, files, feed, items, errors, validated,
                 listed, torrents, results, verdicts, deletes, calls>>

\* somebody deletes a file of the torrent directory
ExternalUnlink ==
  /\ \E p \in files : files' = files \ {p}
  /\ UNCHANGED <<tracker, cmd, pc, now, qbt, feed, items, errors, validated,
                 listed, torrents, results, verdicts, deletes, calls>>

Next ==
  \/ \E c \in {"run", "add", "clean"}, t \in TrackerNames : Start(c, t)
  \/ RunFetch
  \/ RunValidate
  \/ RunAdd
  \/ RunSleep
  \/ Interrupt
  \/ CheckSeedTimes
  \/ CleanEntry
  \/ CleanReturn
  \/ AddFetch
  \/ AddValidateItems
  \/ AddEntry
  \/ AddReturn
  \/ ExternalRemove
  \/ ExternalUnlink

Spec == Init /\ [][Next]_vars

\* the process goes on by itself: a step of a command that can be taken is
\* taken (the user, the clock and the starting of processes are under no
\* such obligation)
Fairness ==
  /\ WF_vars(RunFetch)
  /\ WF_vars(RunValidate)
  /\ WF_vars(RunAdd)
  /\ WF_vars(RunSleep)
  /\ WF_vars(CheckSeedTimes)
  /\ WF_vars(CleanEntry)
  /\ WF_vars(CleanReturn)

SpecLive == Init /\ [][Next]_vars /\ Fairness

(***************************************************************************)
(* get_rss on every feed (the fetch command, cli.py lines 21-24)           *)
(***************************************************************************)
\* the publish instants of the feeds: the hours around the end of daylight
\* saving time
RssPubDates == (DSTEnd - 2)..(DSTEnd + 1)

RssRawItems ==
  {FeedItem(g, TorrentSize("h1"), d, f) : g \in Ids \cup {NoId}, d \in RssPubDates, f \in {0, 1}}

InitRss ==
  /\ tracker \in TrackerNames
  /\ cmd = "fetch"
  /\ pc = "get_rss"
  /\ now = 0
  /\ files = {}
  /\ qbt = {}
  /\ feed \in SeqsUpTo(RssRawItems, MaxFeed)
  /\ items = <<>>
  /\ errors = <<>>
  /\ validated = <<>>
  /\ listed = <<>>
  /\ torrents = <<>>
  /\ results = <<>>
  /\ verdicts = <<>>
  /\ deletes = [h \in Hashes |-> 0]
  /\ calls = <<>>

\* line 24: items = manager.get_rss(freeleech_only=freeleech)
Fetch ==
  /\ cmd = "fetch" /\ pc = "get_rss"
  /\ \E freeleech_only \in BOOLEAN :
       IF \E i \in 1..Len(feed) : feed[i].guid = NoId
       THEN /\ pc' = "crashed"
            /\ calls' = <<Event("get_rss", freeleech_only), Raise(ParseError)>>
            /\ UNCHANGED items
       ELSE /\ items' = get_rss(parse(feed, tracker), freeleech_only)
            /\ pc' = "returned"
            /\ calls' = <<Event("get_rss", freeleech_only)>>
  /\ UNCHANGED <<tracker, cmd, now, files, qbt, feed, errors, validated, listed,
                 torrents, results, verdicts, deletes>>

NextRss == Fetch

SpecRss == InitRss /\ [][NextRss]_vars

(***************************************************************************)
(* validate on every release, directory, client and clock                  *)
(***************************************************************************)
\* a torrent of another category, which the client holds besides the managed ones
ForeignTorrent == Torrent("hx", 1, 0, "manual")

\* what the client can hold: the torrents of the releases, added by the
\* manager, and the foreign one
ClientTorrents ==
  {Torrent(h, TorrentSize(h), 0, settings.QBITTORRENT_CATEGORY) : h \in Hashes}
    \cup {ForeignTorrent}

\* the publish instants of the releases: two hours before the clock starts to
\* one hour after, as the feed reports them (eight hours ahead)
ValidatePubDates == (8 - 2)..(8 + 1)

ValidateRawItems ==
  {FeedItem(g, s, d, 0) : g \in Ids, s \in 0..MaxSize, d \in ValidatePubDates}

InitValidate ==
  /\ tracker \in TrackerNames
  /\ cmd = "validate"
  /\ pc = "validate"
  /\ now \in 0..MaxNow
  /\ files \in SUBSET Paths
  /\ qbt \in SUBSET ClientTorrents
  /\ feed \in {<<raw>> : raw \in ValidateRawItems}
  /\ items = parse(feed, tracker)
  /\ errors = <<>>
  /\ validated = <<>>
  /\ listed = <<>>
  /\ torrents = <<>>
  /\ results = <<>>
  /\ verdicts = <<>>
  /\ deletes = [h \in Hashes |-> 0]
  /\ calls = <<>>

\* errors = manager.validate(item)
Validate ==
  /\ cmd = "validate" /\ pc = "validate"
  /\ errors' = validate(tracker, Head(items), files, qbt, now)
  /\ pc' = "validated"
  /\ calls' = <<Event("validate", Head(items))>>
  /\ UNCHANGED <<tracker, cmd, now, files, qbt, feed, items, validated, listed,
                 torrents, results, verdicts, deletes>>

NextValidate == Validate

SpecValidate == InitValidate /\ [][NextValidate]_vars

(***************************************************************************)
(* A local torrent record written to its file and read back                 *)
(***************************************************************************)
InitFile ==
  /\ tracker \in TrackerNames
  /\ cmd = "file"
  /\ pc = "to_file"
  /\ now = 0
  /\ files = {}
  /\ qbt = {}
  /\ feed = <<>>
  /\ items = <<>>
  /\ errors = <<>>
  /\ validated = <<>>
  /\ listed \in {<<from_bytes(i, tracker, h)>> : i \in 0..MaxId, h \in Hashes}
  /\ torrents = <<>>
  /\ results = <<>>
  /\ verdicts = <<>>
  /\ deletes = [h \in Hashes |-> 0]
  /\ calls = <<>>

\* LocalTorrentFile.to_file: the contents are written to the file of the name
\* generate_filepath gives
ToFile ==
  /\ cmd = "file" /\ pc = "to_file"
  /\ files' = {[name |-> filename(listed[1].tracker, listed[1].id),
                contents |-> listed[1].infohash]}
  /\ pc' = "from_filepath"
  /\ calls' = <<Event("to_file", filename(listed[1].tracker, listed[1].id))>>
  /\ UNCHANGED <<tracker, cmd, now, qbt, feed, items, errors, validated, listed,
                 torrents, results, verdicts, deletes>>

\* LocalTorrentFile.from_filepath on a file of the directory
FromFilepath ==
  /\ cmd = "file" /\ pc = "from_filepath"
  /\ \E file \in files :
       /\ results' = <<from_file(file)>>
       /\ calls' = <<Event("from_filepath", file.name)>>
  /\ pc' = "read"
  /\ UNCHANGED <<tracker, cmd, now, files, qbt, feed, items, errors, validated,
                 listed, torrents, verdicts, deletes>>

NextFile == ToFile \/ FromFilepath

SpecFile == InitFile /\ [][NextFile]_vars

(***************************************************************************)
(* validate while a torrent is removed in the client                        *)
(***************************************************************************)
\* errors = manager.validate(item); between the two check_seeding_size calls
\* of validate a torrent may be removed in the client
ValidateDuringRemoval ==
  /\ cmd = "validate" /\ pc = "validate"
  /\ \E later \in {qbt} \cup {qbt \ {t} : t \in qbt} :
       /\ errors' = validate_reads(tracker, Head(items), files, qbt, later, now)
       /\ qbt' = later
       /\ calls' = <<Event("validate", Head(items)),
                     Event("torrents_info", torrents_info(qbt, settings.QBITTORRENT_CATEGORY)),
                     Event("torrents_info", torrents_info(later, settings.QBITTORRENT_CATEGORY))>>
  /\ pc' = "validated"
  /\ UNCHANGED <<tracker, cmd, now, files, feed, items, validated, listed,
                 torrents, results, verdicts, deletes>>

NextSnapshot == ValidateDuringRemoval

SpecSnapshot == InitValidate /\ [][NextSnapshot]_vars

(***************************************************************************)
(* validate_items on every list of releases                                 *)
(***************************************************************************)
\* the items of the lists: releases of either id, of two sizes, freeleech or
\* not; a list may hold an id twice, with other fields
ItemsRawItems ==
  {FeedItem(g, sz, 8, f) : g \in Ids, sz \in {3, 5}, f \in {0, 1}}

InitItems ==
  /\ tracker \in TrackerNames
  /\ cmd = "validate_items"
  /\ pc = "validate_items"
  /\ now = 0
  /\ files = {}
  /\ qbt = {}
  /\ feed \in SeqsUpTo(ItemsRawItems, MaxFeed)
  /\ items = parse(feed, tracker)
  /\ errors = <<>>
  /\ validated = <<>>
  /\ listed = <<>>
  /\ torrents = <<>>
  /\ results = <<>>
  /\ verdicts = <<>>
  /\ deletes = [h \in Hashes |-> 0]
  /\ calls = <<>>

\* items = manager.validate_items(items)
ValidateItems ==
  /\ cmd = "validate_items" /\ pc = "validate_items"
  /\ validated' = validate_items(tracker, items, files, qbt, now)
  /\ pc' = "returned"
  /\ calls' = <<Event("validate_items", items)>>
  /\ UNCHANGED <<tracker, cmd, now, files, qbt, feed, items, errors, listed,
                 torrents, results, verdicts, deletes>>

NextItems == ValidateItems

SpecItems == InitItems /\ [][NextItems]_vars

(***************************************************************************)
(* The budgets over a run of one process: the polling loop or the add      *)
(* command of a manager that starts with a client within its budgets, on   *)
(* feeds of every release of its tracker                                   *)
(***************************************************************************)
\* the feed items of the budget specification: every release of the tracker,
\* with the size of the torrent the release stands for
BudgetRawItems(t) ==
  {FeedItem(g, IF g = NoId THEN TorrentSize("h1") ELSE TorrentSize(DownloadedInfohash(t, g)), d, f) :
     g \in Ids \cup {NoId}, d \in PubDates, f \in {0, 1}}

BudgetFeeds(t) == {f \in SeqsUpTo(BudgetRawItems(t), MaxFeed) : IdConsistent(f)}

\* the manager is built and run or add begins: the client holds torrents whose
\* total is within the tracker's budget and the global one, the directory
\* holds files of torrents the client has in the managed category
InitBudget ==
  /\ tracker \in TrackerNames
  /\ cmd \in {"run", "add"}
  /\ pc = "get_rss"
  /\ now = 0
  /\ qbt \in {c \in SUBSET ClientTorrents :
                /\ check_seeding_size(c) <= AVAILABLE_TRACKERS[tracker].max_storage_size_bytes
                /\ check_seeding_size(c) <= settings.MAX_STORAGE_SIZE_BYTES}
  /\ files \in {dir \in SUBSET Paths :
                  \A p \in dir : \E t \in torrents_info(qbt, settings.QBITTORRENT_CATEGORY) :
                                   t.infohash = FileContents(p)}
  /\ feed = <<>>
  /\ items = <<>>
  /\ errors = <<>>
  /\ validated = <<>>
  /\ listed = <<>>
  /\ torrents = <<>>
  /\ results = <<>>
  /\ verdicts = <<>>
  /\ deletes = [h \in Hashes |-> 0]
  /\ calls = <<>>

\* run, lines 139-143, on the feeds of the budget specification
PollFetch ==
  /\ cmd = "run" /\ pc = "get_rss"
  /\ \/ /\ pc' = "sleep"
        /\ calls' = <<Raise("ReadTimeout")>>
        /\ UNCHANGED <<items, errors, validated, listed, torrents, results>>
     \/ \E exc \in OtherNetworkErrors : Crash(exc, <<>>)
     \/ \E f \in BudgetFeeds(tracker) :
          IF \E i \in 1..Len(f) : f[i].guid = NoId
          THEN Crash(ParseError, <<>>)
          ELSE /\ items' = get_rss(parse(f, tracker), TRUE)
               /\ pc' = IF items' = <<>> THEN "check_seed_times" ELSE "validate"
               /\ calls' = <<Event("get_rss", items')>>
               /\ UNCHANGED <<errors, validated, listed, torrents, results>>
  /\ UNCHANGED <<tracker, cmd, now, files, qbt, feed, verdicts, deletes>>

\* add, line 54, on the feeds of the budget specification
BatchFetch ==
  /\ cmd = "add" /\ pc = "get_rss"
  /\ \/ \E exc \in OtherNetworkErrors \cup {"ReadTimeout"} : Crash(exc, <<>>)
     \/ \E f \in BudgetFeeds(tracker) :
          IF \E i \in 1..Len(f) : f[i].guid = NoId
          THEN Crash(ParseError, <<>>)
          ELSE /\ items' = get_rss(parse(f, tracker), TRUE)
               /\ pc' = "validate_items"
               /\ calls' = <<Event("get_rss", items')>>
               /\ UNCHANGED <<errors, validated, listed, torrents, results>>
  /\ UNCHANGED <<tracker, cmd, now, files, qbt, feed, verdicts, deletes>>

\* one process from its start to its end; nothing but the manager adds
\* torrents to the client
NextBudget ==
  \/ PollFetch
  \/ RunValidate
  \/ RunAdd
  \/ RunSleep
  \/ CheckSeedTimes
  \/ CleanEntry
  \/ CleanReturn
  \/ BatchFetch
  \/ AddValidateItems
  \/ AddEntry
  \/ AddReturn
  \/ ExternalRemove
  \/ ExternalUnlink

SpecBudget == InitBudget /\ [][NextBudget]_vars

(***************************************************************************)
(* Properties                                                              *)
(***************************************************************************)
Reasons ==
  {FILE_EXISTS_ALREADY, FILE_SEEDING_ALREADY, TORRENT_TOO_LARGE, TORRENT_TOO_SMALL,
   TRACKER_BUDGET_EXCEEDED, GLOBAL_BUDGET_EXCEEDED, NOT_RECENT_ENOUGH}

\* validate has returned (validation specification)
Validated == cmd = "validate" /\ pc = "validated"

\* the release validate was called with
Release == items[1]

\* the size the client reports for an infohash among the torrents of the
\* managed category, 0 when it holds none
LiveSize(h) ==
  IF \E t \in qbt : t.infohash = h /\ t.category = settings.QBITTORRENT_CATEGORY
  THEN (CHOOSE t \in qbt : t.infohash = h /\ t.category = settings.QBITTORRENT_CATEGORY).size
  ELSE 0

\* the live total of the managed category, across all trackers
LiveTotal == LiveSize("h1") + LiveSize("h2") + LiveSize("h3") + LiveSize("hx")

\* a torrent is a tracker's when the tracker serves it for one of its releases
ServedBy(t, h) == \E i \in Ids : DownloadedInfohash(t, i) = h

\* the live seeding size of one tracker: the sizes of its torrents
TrackerLiveSize(t) ==
  (IF ServedBy(t, "h1") THEN LiveSize("h1") ELSE 0)
  + (IF ServedBy(t, "h2") THEN LiveSize("h2") ELSE 0)
  + (IF ServedBy(t, "h3") THEN LiveSize("h3") ELSE 0)

\* the age of the release at the call: the clock less its publish time, which
\* is the pubDate of the feed item less the eight hours parse_datetime takes
Age == now - (feed[1].pubDate - 8)

\* C1: a release is handed to add only when the validate call made for it in
\* the batch returned no reason: a release with at least one reason is never
\* added, in the polling loop and in the add command alike.
C1_AddOnlyAccepted ==
  \A k \in 1..Len(calls) :
    calls[k].op = "add" =>
      /\ \E i \in 1..Len(verdicts) : verdicts[i].item = calls[k].arg
      /\ \A i \in 1..Len(verdicts) :
           (/\ verdicts[i].item = calls[k].arg
            /\ \A j \in (i + 1)..Len(verdicts) : verdicts[j].item # calls[k].arg)
             => verdicts[i].errors = <<>>

\* a batch of the polling loop in which one release was refused and another
\* one, with no reason, was added
C1_Witness ==
  /\ cmd = "run"
  /\ Len(calls) = 3 /\ calls[1].op = "add" /\ calls[3].op = "to_file"
  /\ calls[3].arg \in files
  /\ \E i \in 1..Len(verdicts) :
       verdicts[i].errors # <<>> /\ verdicts[i].item # calls[1].arg

\* C2: get_rss returns the releases in descending order of publish date: no
\* release published later stands behind one published earlier.
C2_DescendingPublishDate ==
  (cmd = "fetch" /\ pc = "returned") =>
    \A i \in 1..(Len(items) - 1) :
      Instant(items[i].publish_date) >= Instant(items[i + 1].publish_date)

\* C3: validate gives TRACKER_BUDGET_EXCEEDED exactly when the live seeding
\* size of the release's tracker (the client-reported sizes of that tracker's
\* torrents) plus the size of the release is greater than max_storage_size.
C3_TrackerBudget ==
  Validated =>
    (TRACKER_BUDGET_EXCEEDED \in Range(errors)
       <=> TrackerLiveSize(Release.tracker) + Release.size
             > AVAILABLE_TRACKERS[Release.tracker].max_storage_size_bytes)

\* C4: validate gives GLOBAL_BUDGET_EXCEEDED exactly when the live total of the
\* managed category, across all trackers, plus the size of the release is
\* greater than MAX_STORAGE_SIZE_BYTES, whatever the tracker budget says.
C4_GlobalBudget ==
  Validated =>
    (GLOBAL_BUDGET_EXCEEDED \in Range(errors)
       <=> LiveTotal + Release.size > settings.MAX_STORAGE_SIZE_BYTES)

\* the global budget is exceeded, by torrents of both trackers, and the
\* tracker budget is not
C4_Witness ==
  /\ Validated
  /\ GLOBAL_BUDGET_EXCEEDED \in Range(errors)
  /\ TRACKER_BUDGET_EXCEEDED \notin Range(errors)
  /\ LiveSize("h2") > 0 /\ LiveSize("h3") > 0
  /\ ForeignTorrent \in qbt

\* C5: the size bounds are inclusive: TORRENT_TOO_LARGE exactly when the size
\* is greater than max_torrent_size, TORRENT_TOO_SMALL exactly when it is less
\* than min_torrent_size; a release of exactly either bound gets neither.
C5_SizeBounds ==
  Validated =>
    /\ TORRENT_TOO_LARGE \in Range(errors)
         <=> Release.size > AVAILABLE_TRACKERS[tracker].max_torrent_size_bytes
    /\ TORRENT_TOO_SMALL \in Range(errors)
         <=> Release.size < AVAILABLE_TRACKERS[tracker].min_torrent_size_bytes
    /\ Release.size \in {AVAILABLE_TRACKERS[tracker].max_torrent_size_bytes,
                         AVAILABLE_TRACKERS[tracker].min_torrent_size_bytes}
         => Range(errors) \cap {TORRENT_TOO_LARGE, TORRENT_TOO_SMALL} = {}

\* a release of exactly max_torrent_size, with no size reason
C5_Witness ==
  /\ Validated
  /\ Release.size = AVAILABLE_TRACKERS[tracker].max_torrent_size_bytes
  /\ Range(errors) \cap {TORRENT_TOO_LARGE, TORRENT_TOO_SMALL} = {}

Holds(reason) ==
  LET profile == AVAILABLE_TRACKERS[tracker]
      path    == [tracker |-> Release.tracker, id |-> Release.id]
  IN  CASE reason = FILE_EXISTS_ALREADY -> path \in files
        [] reason = FILE_SEEDING_ALREADY ->
             path \in files /\ \E t \in qbt : t.infohash = FileContents(path)
        [] reason = TORRENT_TOO_LARGE -> Release.size > profile.max_torrent_size_bytes
        [] reason = TORRENT_TOO_SMALL -> Release.size < profile.min_torrent_size_bytes
        [] reason = TRACKER_BUDGET_EXCEEDED ->
             LiveTotal + Release.size > profile.max_storage_size_bytes
        [] reason = GLOBAL_BUDGET_EXCEEDED ->
             LiveTotal + Release.size > settings.MAX_STORAGE_SIZE_BYTES
        [] reason = NOT_RECENT_ENOUGH -> Age > profile.min_published_recency

PassDone == pc = "clean_up" /\ Len(results) = Len(torrents)

\* check_seed_times of the pass raised KeyError
PassRaised ==
  /\ pc = "crashed"
  /\ Len(calls) = 4 /\ calls[1].op = "listdir" /\ calls[3].op = "lookup"

\* the seeding time the client reported in the pass for a listed torrent
ReportedSeedTime(torrent) ==
  (CHOOSE e \in Range(torrents) : e.key.infohash = torrent.infohash).val

\* the result of the pass for a listed torrent (a dict keyed by
\* LocalTorrentFile finds it under an equal key)
Reported(torrent, val) ==
  \E e \in Range(results) : e.key.infohash = torrent.infohash /\ e.val = val

\* the listed torrent shares its infohash with no other listed one
Unshared(i) ==
  \A j \in 1..Len(listed) : listed[j].infohash = listed[i].infohash => j = i

\* C8: in every clean_up pass a locally tracked torrent is removed (result
\* True) exactly when the seeding time the client reports for it is at least
\* the min_seeding_time of its own tracker, whichever tracker the manager was
\* built for; a torrent below it gets no delete call and is reported False.
\* (Stated for the torrents whose infohash one local file carries: one that
\* two files of different trackers share has no single own tracker.)
C8_RemovedIffSeededLongEnough ==
  /\ PassDone =>
       \A i \in 1..Len(listed) :
         LET enough == ReportedSeedTime(listed[i])
                         >= AVAILABLE_TRACKERS[listed[i].tracker].min_seeding_time
         IN  Unshared(i) =>
               /\ enough <=> Reported(listed[i], TRUE)
               /\ ~enough => Reported(listed[i], FALSE) /\ deletes[listed[i].infohash] = 0
  /\ PassRaised =>
       \A i \in 1..Len(calls[1].arg) : \A t \in calls[2].arg :
         t.infohash = FileContents(calls[1].arg[i])
           => t.seeding_time < AVAILABLE_TRACKERS[calls[1].arg[i].tracker].min_seeding_time

\* C9: to remove a torrent clean_up first deletes the entry of the client, with
\* its data, and then the local file; when the file is already absent the file
\* step does nothing, the pass goes on and the torrent is reported True.
C9_ClientThenFile ==
  \A k \in 1..Len(calls) :
    /\ calls[k].op = "remove" =>
         /\ k > 1
         /\ calls[k - 1].op = "torrents_delete"
         /\ calls[k - 1].arg.torrent_hashes = FileContents(calls[k].arg)
    /\ calls[k].op = "torrents_delete" =>
         /\ calls[k].arg.delete_files
         /\ pc = "clean_up"
         /\ results # <<>>
         /\ results[Len(results)].val = TRUE
         /\ results[Len(results)].key.infohash = calls[k].arg.torrent_hashes
         /\ LocalFilepath(results[Len(results)].key) \notin files
         /\ \/ k = Len(calls)
            \/ /\ calls[k + 1].op = "remove"
               /\ calls[k + 1].arg = LocalFilepath(results[Len(results)].key)

\* a torrent removed whose local file was already absent: the client was
\* asked, no file was deleted, the result is True and the pass goes on
C9_Witness ==
  /\ pc = "clean_up"
  /\ Len(calls) = 1 /\ calls[1].op = "torrents_delete"
  /\ results # <<>> /\ results[Len(results)].val = TRUE
  /\ Len(results) < Len(torrents)

\* C10: cleanup is idempotent: a clean_up run again after a torrent was
\* removed does not raise for that torrent and asks the client no second time
\* to delete it.
C10_CleanupIdempotent ==
  /\ \A h \in Hashes : deletes[h] <= 1
  /\ PassRaised => deletes[calls[3].arg] = 0

\* check_seed_times has just listed the directory and asked the client, and
\* the answer lacks the infohash of the i-th listed file
Orphan(i) ==
  /\ Len(calls) >= 2 /\ calls[1].op = "listdir" /\ calls[2].op = "torrents_info"
  /\ i \in 1..Len(calls[1].arg)
  /\ \A t \in calls[2].arg : t.infohash # FileContents(calls[1].arg[i])

\* C11: a local torrent file whose infohash the client does not report (the
\* torrent was removed there) is tolerated: check_seed_times and clean_up do
\* not raise, the pass goes on with the other local torrents, and the orphaned
\* file is among the torrents the pass reports on.
C11_OrphanTolerated ==
  \A i \in 1..Cardinality(Paths) :
    Orphan(i) =>
      /\ pc = "clean_up"
      /\ \A k \in 1..Len(calls) : calls[k].op # "raise"
      /\ \E e \in Range(torrents) : e.key.infohash = FileContents(calls[1].arg[i])

\* C12: when the fetch of a poll iteration fails with a network timeout or a
\* connection failure the process does not end: the iteration validates
\* nothing, adds nothing, cleans nothing up and goes to sleep, after which the
\* next iteration fetches again.
C12_FetchFailureSkipsIteration ==
  (/\ cmd = "run"
   /\ Len(calls) = 1 /\ calls[1].op = "raise"
   /\ calls[1].arg \in OtherNetworkErrors \cup {"ReadTimeout"})
    => /\ pc = "sleep"
       /\ items = <<>> /\ verdicts = <<>> /\ torrents = <<>> /\ results = <<>>

\* C13: a network failure while one release of the poll loop is added is
\* recoverable for that release: it is skipped, the loop goes on with the next
\* release of the batch, or with the cleanup pass after the last one.
C13_AddFailureSkipsItem ==
  (/\ cmd = "run"
   /\ Len(calls) = 2 /\ calls[1].op = "add" /\ calls[2].op = "raise"
   /\ calls[2].arg \in OtherNetworkErrors \cup {"ReadTimeout"})
    => /\ pc \in {"validate", "check_seed_times"}
       /\ pc = "validate" <=> items # <<>>

\* C14: a feed item whose guid carries no torrent id makes only that item
\* drop: get_rss still returns the other items of the feed (those the
\* freeleech filter lets through).
C14_BadItemDropped ==
  (cmd = "fetch" /\ pc \in {"returned", "crashed"}) =>
    /\ pc = "returned"
    /\ \A i \in 1..Len(feed) :
         (feed[i].guid # NoId /\ (calls[1].arg => feed[i].downloadvolumefactor = 0))
           => RSSItem(feed[i], tracker) \in Range(items)

\* C15: the polling loop runs for ever: whatever fails on the way, every
\* iteration that starts reaches its sleep step.
C15_LoopRunsForever ==
  (cmd = "run" /\ pc = "get_rss") ~> (cmd = "run" /\ pc = "sleep")

\* C16: a local torrent record written with to_file to the path
\* generate_filepath gives for its tracker and id, and built again with
\* from_filepath from that path, has the same id, the same tracker and the
\* same infohash; different pairs of tracker and id have different paths.
C16_FileRoundTrip ==
  /\ (cmd = "file" /\ pc = "read") =>
       /\ DOMAIN results[1] = DOMAIN listed[1]
       /\ results[1].id = listed[1].id
       /\ results[1].tracker = listed[1].tracker
       /\ results[1].infohash = listed[1].infohash
  /\ \A t1, t2 \in TrackerNames : \A i1, i2 \in 0..MaxId :
       filename(t1, i1) = filename(t2, i2) => (t1 = t2 /\ i1 = i2)

\* a record of an id of two digits, read back from its file
C16_Witness ==
  /\ cmd = "file" /\ pc = "read"
  /\ listed[1].id >= 10
  /\ results[1] = listed[1]
  /\ Len(calls[1].arg) = Len(NameChars(listed[1].tracker)) + 12

\* how often an item occurs in a sequence
Occurrences(s, x) == Cardinality({i \in 1..Len(s) : s[i] = x})

\* C17: get_rss(freeleech_only=True) returns exactly the releases of the feed
\* whose download volume factor is 0, each as often as the feed holds it, and
\* none else; get_rss(freeleech_only=False) returns every release of the feed.
C17_FreeleechFilter ==
  (cmd = "fetch" /\ pc = "returned") =>
    LET wanted == {i \in 1..Len(feed) :
                     calls[1].arg => feed[i].downloadvolumefactor = 0}
    IN  /\ Len(items) = Cardinality(wanted)
        /\ \A x \in Range(items) \cup {RSSItem(feed[i], tracker) : i \in wanted} :
             Occurrences(items, x)
               = Cardinality({i \in wanted : RSSItem(feed[i], tracker) = x})
        /\ \A i \in 1..Len(items) :
             freeleech(items[i]) <=> items[i].downloadvolumefactor = 0

\* a feed with a freeleech release and one that is not, fetched with
\* freeleech_only: the first is returned alone
C17_Witness ==
  /\ cmd = "fetch" /\ pc = "returned"
  /\ calls[1].arg = TRUE
  /\ Len(feed) = 2 /\ Len(items) = 1
  /\ items[1].downloadvolumefactor = 0
  /\ \E i \in 1..2 : feed[i].downloadvolumefactor # 0

\* the reasons about the two budgets among a result of validate
BudgetReasons(errs) ==
  Range(errs) \cap {TRACKER_BUDGET_EXCEEDED, GLOBAL_BUDGET_EXCEEDED}

\* C18: validate is a function of the release, the tracker profile, the
\* accounting snapshot and the clock: one call judges the tracker budget and
\* the global budget on one and the same snapshot of the client, so its result
\* is the one these four inputs give.
C18_OneSnapshot ==
  (cmd = "validate" /\ pc = "validated" /\ Len(calls) = 3) =>
    \E k \in 2..3 :
      BudgetReasons(errors)
        = BudgetReasons(validate(tracker, Release, files, calls[k].arg, now))

\* the first call of a step, "none" for a step that makes none
FirstOp(c) == IF c = <<>> THEN "none" ELSE c[1].op

\* the process takes a step of the polling loop
LoopStep == cmd = "run" /\ cmd' = "run" /\ pc \notin {"idle", "crashed"} /\ calls' # calls

\* C19: the polling loop is sequential: in an iteration the fetch comes first,
\* then for each release validate and, for an accepted one, add right after
\* it, then one cleanup pass after the last release, then the sleep; the next
\* fetch comes only after the sleep.
C19_Sequential ==
  [][LoopStep =>
       /\ (FirstOp(calls') = "get_rss" \/ pc = "get_rss")
            => (pc = "get_rss" /\ FirstOp(calls) \in {"sleep", "none"})
       /\ FirstOp(calls') = "validate"
            => (FirstOp(calls) \in {"get_rss", "validate", "add"} /\ items # <<>>)
       /\ FirstOp(calls') = "add"
            => (FirstOp(calls) = "validate" /\ calls[1].arg = calls'[1].arg
                /\ errors = <<>>)
       /\ FirstOp(calls') = "listdir"
            => (FirstOp(calls) \in {"get_rss", "validate", "add"} /\ items' = <<>>)
       /\ FirstOp(calls') \in {"torrents_delete", "return"}
            => (pc = "clean_up"
                /\ FirstOp(calls) \in {"listdir", "torrents_delete", "none"})
       /\ FirstOp(calls') = "sleep"
            => (pc = "sleep" /\ FirstOp(calls) \in {"return", "raise"})
    ]_vars

\* an iteration that fetched, added, cleaned up (a pass with an entry) and
\* has come to its sleep
C19_Witness ==
  /\ cmd = "run" /\ pc = "sleep"
  /\ FirstOp(calls) = "return" /\ calls[1].arg # <<>>
  /\ items = <<>> /\ torrents = <<>> /\ results = <<>>

\* C20: releases are equal, and hash alike, by their id alone: two of the
\* same id are equal whatever their other fields, two of different ids are
\* not; so the dict validate_items returns holds one entry for each id of its
\* input and no other.
C20_OneEntryPerId ==
  /\ \A i, j \in 1..Len(items) : RSSItemEq(items[i], items[j]) <=> items[i].id = items[j].id
  /\ (cmd = "validate_items" /\ pc = "returned") =>
       /\ {validated[k].key.id : k \in 1..Len(validated)} = {items[i].id : i \in 1..Len(items)}
       /\ \A k, l \in 1..Len(validated) : validated[k].key.id = validated[l].key.id => k = l
       /\ \A k \in 1..Len(validated) : validated[k].key \in Range(items)

\* two releases of one id and of different sizes: the dict holds one entry
C20_Witness ==
  /\ cmd = "validate_items" /\ pc = "returned"
  /\ Len(items) = 2 /\ items[1].id = items[2].id /\ items[1].size # items[2].size
  /\ Len(validated) = 1

\* C21: validate gives FILE_SEEDING_ALREADY exactly when the local torrent file
\* of the release exists and the client knows the infohash of that file; when
\* the client answers not found, validate returns and the reason is absent;
\* FILE_SEEDING_ALREADY never comes without FILE_EXISTS_ALREADY.
C21_SeedingAlready ==
  Validated =>
    /\ FILE_SEEDING_ALREADY \in Range(errors)
         <=> /\ filepath(Release) \in files
             /\ \E t \in qbt : t.infohash = FileContents(filepath(Release))
    /\ FILE_SEEDING_ALREADY \in Range(errors) => FILE_EXISTS_ALREADY \in Range(errors)

\* the file of the release exists, the client holds torrents but not the one
\* of the file: validate returned with FILE_EXISTS_ALREADY alone of the two
C21_Witness ==
  /\ Validated
  /\ filepath(Release) \in files
  /\ qbt # {}
  /\ \A t \in qbt : t.infohash # FileContents(filepath(Release))
  /\ FILE_EXISTS_ALREADY \in Range(errors)
  /\ FILE_SEEDING_ALREADY \notin Range(errors)

\* C22: in the polling loop, started with the live total of the managed
\* category within the tracker's max_storage_size and within the global
\* budget, with each torrent reported at the size of its release and nobody
\* else adding torrents, the live total is within both budgets after every
\* step of every iteration.
C22_PollBudget ==
  cmd = "run" =>
    /\ LiveTotal <= AVAILABLE_TRACKERS[tracker].max_storage_size_bytes
    /\ LiveTotal <= settings.MAX_STORAGE_SIZE_BYTES

\* an iteration has added its first release and refused its second, for a
\* budget: the second was validated against the total the first had raised
C22_Witness ==
  /\ cmd = "run"
  /\ Len(verdicts) = 2
  /\ verdicts[1].errors = <<>>
  /\ Range(verdicts[2].errors) \subseteq {TRACKER_BUDGET_EXCEEDED, GLOBAL_BUDGET_EXCEEDED}
  /\ verdicts[2].errors # <<>>
  /\ LiveSize(DownloadedInfohash(tracker, verdicts[1].item.id)) > 0
  /\ filepath(verdicts[1].item) \in files

\* C23: the add command, started with the live total of the managed category
\* within the tracker's max_storage_size and within the global budget, with
\* each torrent reported at the size of its release, leaves the live total
\* within both budgets.
C23_AddBudget ==
  cmd = "add" =>
    /\ LiveTotal <= AVAILABLE_TRACKERS[tracker].max_storage_size_bytes
    /\ LiveTotal <= settings.MAX_STORAGE_SIZE_BYTES

\* a call of RatioManager.add, by the polling loop or by the add command
AddCall ==
  /\ pc = "add"
  /\ items' # items \/ validated' # validated \/ pc' = "crashed"
  /\ calls' # <<>>
  /\ calls'[1].op = "add"

\* C24: when the download of add raises, the torrent client and the torrent
\* directory are as they were; when add returns, the torrent was submitted to
\* the client, a torrent it took in is in the managed category, and after
\* that the downloaded bytes were written to
\* generate_filepath(release.tracker, release.id).
C24_AddAllOrNothing ==
  [][AddCall =>
       LET item == calls'[1].arg
           contents == DownloadedInfohash(item.tracker, item.id)
       IN  IF calls'[Len(calls')].op = "raise"
           THEN qbt' = qbt /\ files' = files
           ELSE /\ Len(calls') = 3
                /\ calls'[2] = Event("torrents_add", contents)
                /\ calls'[3] = Event("to_file", generate_filepath(item.tracker, item.id))
                /\ \E t \in qbt' : t.infohash = contents
                /\ \A t \in qbt' \ qbt :
                     t.infohash = contents /\ t.category = settings.QBITTORRENT_CATEGORY
                /\ files' = files \cup {generate_filepath(item.tracker, item.id)}
                /\ FileContents(generate_filepath(item.tracker, item.id)) = contents]_vars

\* the add command has ingested one release and the download of the next one
\* failed: the first is in the client and in the directory, the second in
\* neither
C24_Witness ==
  /\ cmd = "add" /\ pc = "crashed"
  /\ Len(calls) = 2
  /\ calls[1].op = "add" /\ calls[2].op = "raise"
  /\ filepath(calls[1].arg) \notin files
  /\ ~check_exists(qbt, DownloadedInfohash(calls[1].arg.tracker, calls[1].arg.id))
  /\ \E p \in files : check_exists(qbt, FileContents(p))

\* C25: local torrents are equal, and hash alike, exactly when their infohashes
\* are equal (the dicts of a pass hold one entry for an infohash), and when a
\* clean_up pass has handled every entry no file is left in the directory
\* whose infohash the pass deleted in the client, also when two local files
\* carry that infohash.
C25_NoFileOfDeletedTorrent ==
  PassDone =>
    /\ \A i, j \in 1..Len(torrents) :
         torrents[i].key.infohash = torrents[j].key.infohash => i = j
    /\ \A i \in 1..Len(listed) :
         \E e \in Range(torrents) : e.key.infohash = listed[i].infohash
    /\ \A e \in Range(results) :
         e.val => \A p \in files : FileContents(p) # e.key.infohash

====
